---------------------------- MODULE Spec2Model ----------------------------
(* A page running src/server/comment.js (the Input Validator) and           *)
(* src/unnamed/part_000 (the Visibility Toggle) in a DOM environment:       *)
(* element query, attribute read, style/content mutation, event             *)
(* subscription and requestAnimationFrame.  Handlers run to completion, so  *)
(* each script run, event dispatch and animation frame is one action.       *)
EXTENDS Integers, Sequences, FiniteSets, TLC

VARIABLES
    document,          \* which target nodes the page holds
    attrs,             \* attributes of each input element
    innerHTML,         \* content of the first <strong> (Feedback Element)
    divStyle,          \* style attribute of the first <div> (Toggle Target)
    window,            \* the scripts' global bindings: strong, div, fade_in, fade_out
    keydownListeners,  \* per input: the keydown listeners, in registration order
    clickListeners,    \* per button index: the click listeners, in registration order
    pending,           \* animation-frame callbacks not yet run, in scheduling order
    errors,            \* source places where an uncaught exception was thrown
    commentJs,         \* run state of comment.js
    toggleJs,          \* run state of part_000
    last,              \* history: the step taken last
    calls,             \* history: the fade functions invoked since the last frame
    sawLong            \* history: a checked keydown found a value longer than the maximum

vars == << document, attrs, innerHTML, divStyle, window, keydownListeners,
           clickListeners, pending, errors, commentJs, toggleJs, last,
           calls, sawLong >>

----------------------------------------------------------------------------
(* Bounds of the model *)

\* longest value an input is given
MaxLen == 11
\* most animation-frame callbacks pending at once
MaxPending == 3

\* the page's input elements, and the indices of the buttons the script uses
Inputs == {1, 2}
Buttons == {0, 1}

----------------------------------------------------------------------------
(* Program constants *)

MaxCommentLength == 10
Warning == "Comment too long!"

\* content of the <strong> and style of the <div> as the page is delivered
InitialHTML == ""
InitialStyle == ""

----------------------------------------------------------------------------
(* JavaScript values *)

Undefined == [t |-> "undefined"]
Null == [t |-> "null"]
Str(s) == [t |-> "string", s |-> s]
Node(tag) == [t |-> "node", tag |-> tag]
Fn(name) == [t |-> "function", name |-> name]

NoThrow == "none"

RECURSIVE Rep(_)
Rep(n) == IF n = 0 THEN "" ELSE "a" \o Rep(n - 1)

\* the texts an input's value attribute takes
Values == { Rep(n) : n \in {0, 5} \cup ((MaxCommentLength - 1) .. MaxLen) }
NoAttrs == [n \in {} |-> ""]

----------------------------------------------------------------------------
(* DOM operations *)

\* (variant: the attribute is read from inputs[0], not from the element)
getAttribute_FirstInput(el, name) ==
    IF name \in DOMAIN attrs[1] THEN Str(attrs[1][name]) ELSE Null

\* element.getAttribute(name): the attribute's text, or null when absent
getAttribute(el, name) ==
    IF name \in DOMAIN attrs[el] THEN Str(attrs[el][name]) ELSE Null

\* document.querySelectorAll(tag)[0]: the first match, or undefined
FirstOf(tag) ==
    IF tag = "strong" THEN (IF document.strong THEN Node("strong") ELSE Undefined)
    ELSE IF tag = "div" THEN (IF document.div THEN Node("div") ELSE Undefined)
    ELSE Undefined

\* target.addEventListener(type, fn): appended unless already registered
addEventListener(listeners, fn) ==
    IF \E k \in 1..Len(listeners) : listeners[k] = fn
    THEN listeners ELSE Append(listeners, fn)

\* (variant: a callback already pending is not scheduled again)
requestAnimationFrame_Debounced(queue, callback) ==
    IF \E k \in 1..Len(queue) : queue[k] = callback
    THEN queue ELSE Append(queue, callback)

\* requestAnimationFrame(callback): one more callback at the end of the queue
requestAnimationFrame(queue, callback) == Append(queue, callback)

\* the opacity, in thousandths, a style attribute gives the element
Opacity(style) ==
    CASE style = "opacity:0.999" -> 999
      [] style = "opacity: 0.999" -> 999
      [] style = "opacity:0.1" -> 100
      [] style = "opacity: 0.1" -> 100
      [] OTHER -> 1000

----------------------------------------------------------------------------
(* comment.js *)

\* (variant: the comparison is off by one, value.length > 11)
lengthCheck_OffByOne(this, html) ==
    LET value == getAttribute(this, "value") IN
    IF value = Null
    THEN [threw |-> "comment.js:5", innerHTML |-> html]
    ELSE IF Len(value.s) > MaxCommentLength + 1
         THEN IF window.strong = Undefined
              THEN [threw |-> "comment.js:6", innerHTML |-> html]
              ELSE [threw |-> NoThrow, innerHTML |-> Warning]
         ELSE [threw |-> NoThrow, innerHTML |-> html]

\* (variant: the comparison is value.length >= 10)
lengthCheck_AtLeast(this, html) ==
    LET value == getAttribute(this, "value") IN
    IF value = Null
    THEN [threw |-> "comment.js:5", innerHTML |-> html]
    ELSE IF Len(value.s) >= MaxCommentLength
         THEN IF window.strong = Undefined
              THEN [threw |-> "comment.js:6", innerHTML |-> html]
              ELSE [threw |-> NoThrow, innerHTML |-> Warning]
         ELSE [threw |-> NoThrow, innerHTML |-> html]

\* (variant: an else branch clears the message on a valid value)
lengthCheck_ClearsOnValid(this, html) ==
    LET value == getAttribute(this, "value") IN
    IF value = Null
    THEN [threw |-> "comment.js:5", innerHTML |-> html]
    ELSE IF window.strong = Undefined
         THEN [threw |-> "comment.js:6", innerHTML |-> html]
         ELSE IF Len(value.s) > MaxCommentLength
              THEN [threw |-> NoThrow, innerHTML |-> Warning]
              ELSE [threw |-> NoThrow, innerHTML |-> ""]

\* lengthCheck, with `this` the element the keydown fired on and html the
\* <strong>'s content: the place it threw at and the content it leaves
lengthCheck(this, html) ==
    LET value == getAttribute(this, "value") IN
    IF value = Null
    THEN [threw |-> "comment.js:5", innerHTML |-> html]
    ELSE IF Len(value.s) > MaxCommentLength
         THEN IF window.strong = Undefined
              THEN [threw |-> "comment.js:6", innerHTML |-> html]
              ELSE [threw |-> NoThrow, innerHTML |-> Warning]
         ELSE [threw |-> NoThrow, innerHTML |-> html]

----------------------------------------------------------------------------
(* part_000 *)

\* (variant: fade_in written with fade_out's opacity)
window_fade_in_WrongOpacity(st) ==
    [st EXCEPT !.pending = requestAnimationFrame(@, "part_000:27")]

\* (variant: fade_out written with fade_in's opacity)
window_fade_out_WrongOpacity(st) ==
    [st EXCEPT !.pending = requestAnimationFrame(@, "part_000:21")]

\* (variant: the style is assigned at once as well as in the callback)
window_fade_out_Synchronous(st) ==
    [pending |-> requestAnimationFrame(st.pending, "part_000:27"),
     style |-> "opacity: 0.1"]

\* the four functions, over st = [pending, style]: each schedules its own
\* callback (named by the line it starts at) and touches nothing else
fade_in(st) ==
    [st EXCEPT !.pending = requestAnimationFrame(@, "part_000:4")]
fade_out(st) ==
    [st EXCEPT !.pending = requestAnimationFrame(@, "part_000:10")]
window_fade_in(st) ==
    [st EXCEPT !.pending = requestAnimationFrame(@, "part_000:21")]
window_fade_out(st) ==
    [st EXCEPT !.pending = requestAnimationFrame(@, "part_000:27")]

\* a call of function object fn
Invoke(fn, st) ==
    CASE fn = "fade_in" -> fade_in(st)
      [] fn = "fade_out" -> fade_out(st)
      [] fn = "window.fade_in" -> window_fade_in(st)
      [] fn = "window.fade_out" -> window_fade_out(st)

\* the style each callback assigns, and the line of the assignment
CallbackStyle(cb) ==
    CASE cb = "part_000:4" -> "opacity:0.999"
      [] cb = "part_000:10" -> "opacity:0.1"
      [] cb = "part_000:21" -> "opacity: 0.999"
      [] cb = "part_000:27" -> "opacity: 0.1"
CallbackLine(cb) ==
    CASE cb = "part_000:4" -> "part_000:5"
      [] cb = "part_000:10" -> "part_000:11"
      [] cb = "part_000:21" -> "part_000:22"
      [] cb = "part_000:27" -> "part_000:28"

\* one callback, over st = [style, errors]: div.style = ..., a TypeError
\* when div is undefined
RunCallback(cb, st) ==
    IF window.div = Undefined
    THEN [style |-> st.style, errors |-> st.errors \cup {CallbackLine(cb)}]
    ELSE [style |-> CallbackStyle(cb), errors |-> st.errors]

\* (variant: the callbacks run last-scheduled first)
RECURSIVE RunFrame_Reversed(_, _)
RunFrame_Reversed(queue, st) ==
    IF queue = << >> THEN st
    ELSE RunFrame_Reversed(SubSeq(queue, 1, Len(queue) - 1),
                           RunCallback(queue[Len(queue)], st))

\* one animation frame: every pending callback, in scheduling order
RECURSIVE RunFrame(_, _)
RunFrame(queue, st) ==
    IF queue = << >> THEN st
    ELSE RunFrame(Tail(queue), RunCallback(Head(queue), st))

\* dispatch of one click: every listener, in registration order
RECURSIVE InvokeAll(_, _)
InvokeAll(listeners, st) ==
    IF listeners = << >> THEN st
    ELSE InvokeAll(Tail(listeners), Invoke(Head(listeners), st))

\* (variant: the two buttons' handlers exchanged)
ToggleScript_Swapped ==
    LET w1 == [window EXCEPT !.div = FirstOf("div"),
                             !.fade_in = Fn("fade_in"),
                             !.fade_out = Fn("fade_out")]
        c1 == [clickListeners EXCEPT ![0] = addEventListener(@, "fade_in")]
        c2 == [c1 EXCEPT ![1] = addEventListener(@, "fade_out")]
        w2 == [w1 EXCEPT !.div = FirstOf("div"),
                         !.fade_in = Fn("window.fade_in"),
                         !.fade_out = Fn("window.fade_out")]
        c3 == [c2 EXCEPT ![0] = addEventListener(@, "window.fade_in")]
        c4 == [c3 EXCEPT ![1] = addEventListener(@, "window.fade_out")]
    IN  IF document.buttons < 1
        THEN [window |-> w1, click |-> clickListeners, threw |-> "part_000:15"]
        ELSE IF document.buttons < 2
             THEN [window |-> w1, click |-> c1, threw |-> "part_000:16"]
             ELSE [window |-> w2, click |-> c4, threw |-> NoThrow]

\* the script from top to bottom: the bindings and listeners it leaves and
\* the line it threw at
ToggleScript ==
    LET w1 == [window EXCEPT !.div = FirstOf("div"),
                             !.fade_in = Fn("fade_in"),
                             !.fade_out = Fn("fade_out")]
        c1 == [clickListeners EXCEPT ![0] = addEventListener(@, "fade_out")]
        c2 == [c1 EXCEPT ![1] = addEventListener(@, "fade_in")]
        w2 == [w1 EXCEPT !.div = FirstOf("div"),
                         !.fade_in = Fn("window.fade_in"),
                         !.fade_out = Fn("window.fade_out")]
        c3 == [c2 EXCEPT ![0] = addEventListener(@, "window.fade_out")]
        c4 == [c3 EXCEPT ![1] = addEventListener(@, "window.fade_in")]
    IN  IF document.buttons < 1
        THEN [window |-> w1, click |-> clickListeners, threw |-> "part_000:15"]
        ELSE IF document.buttons < 2
             THEN [window |-> w1, click |-> c1, threw |-> "part_000:16"]
             ELSE [window |-> w2, click |-> c4, threw |-> NoThrow]

----------------------------------------------------------------------------
(* The state *)

FunctionNames == {"fade_in", "fade_out", "window.fade_in", "window.fade_out"}
Callbacks == {"part_000:4", "part_000:10", "part_000:21", "part_000:27"}

TypeOK ==
    /\ document \in [strong : BOOLEAN, div : BOOLEAN, buttons : 0..2]
    /\ attrs \in [Inputs -> {NoAttrs} \cup {[n \in {"value"} |-> v] : v \in Values}]
    /\ innerHTML \in {InitialHTML, Warning}
    /\ divStyle \in {InitialStyle} \cup {CallbackStyle(cb) : cb \in Callbacks}
    /\ window.strong \in {Undefined, Node("strong")}
    /\ window.div \in {Undefined, Node("div")}
    /\ window.fade_in \in {Undefined, Fn("fade_in"), Fn("window.fade_in")}
    /\ window.fade_out \in {Undefined, Fn("fade_out"), Fn("window.fade_out")}
    /\ \A i \in Inputs : keydownListeners[i] \in {<< >>, << "lengthCheck" >>}
    /\ \A b \in Buttons :
          \A k \in 1..Len(clickListeners[b]) : clickListeners[b][k] \in FunctionNames
    /\ Len(pending) <= MaxPending
    /\ \A k \in 1..Len(pending) : pending[k] \in Callbacks
    /\ commentJs \in {"pending", "done"}
    /\ toggleJs \in {"pending", "done", "threw"}
    /\ \A k \in 1..Len(calls) : calls[k] \in FunctionNames
    /\ sawLong \in BOOLEAN

----------------------------------------------------------------------------
(* Initial states *)

Step(op, target) == [op |-> op, target |-> target, ran |-> << >>]

InitState ==
    /\ attrs \in [Inputs -> {NoAttrs, [n \in {"value"} |-> ""]}]
    /\ innerHTML = InitialHTML
    /\ divStyle = InitialStyle
    /\ window = [strong |-> Undefined, div |-> Undefined,
                 fade_in |-> Undefined, fade_out |-> Undefined]
    /\ keydownListeners = [i \in Inputs |-> << >>]
    /\ clickListeners = [b \in Buttons |-> << >>]
    /\ pending = << >>
    /\ errors = {}
    /\ commentJs = "pending"
    /\ toggleJs = "pending"
    /\ last = Step("none", 0)
    /\ calls = << >>
    /\ sawLong = FALSE

\* the page the scripts are written for: a <strong>, a <div>, two buttons
Init ==
    /\ document = [strong |-> TRUE, div |-> TRUE, buttons |-> 2]
    /\ InitState

\* any page, with or without the target nodes
InitAnyPage ==
    /\ document \in [strong : BOOLEAN, div : BOOLEAN, buttons : 0..2]
    /\ InitState

----------------------------------------------------------------------------
(* Actions *)

\* comment.js runs
LoadComment ==
    /\ commentJs = "pending"
    /\ window' = [window EXCEPT !.strong = FirstOf("strong")]
    /\ keydownListeners' =
           [i \in Inputs |-> addEventListener(keydownListeners[i], "lengthCheck")]
    /\ commentJs' = "done"
    /\ last' = Step("load", 0)
    /\ UNCHANGED << document, attrs, innerHTML, divStyle, clickListeners,
                    pending, errors, toggleJs, calls, sawLong >>

\* part_000 runs
LoadToggle ==
    /\ toggleJs = "pending"
    /\ LET r == ToggleScript IN
       /\ window' = r.window
       /\ clickListeners' = r.click
       /\ errors' = IF r.threw = NoThrow THEN errors ELSE errors \cup {r.threw}
       /\ toggleJs' = IF r.threw = NoThrow THEN "done" ELSE "threw"
    /\ last' = Step("load", 1)
    /\ UNCHANGED << document, attrs, innerHTML, divStyle, keydownListeners,
                    pending, commentJs, calls, sawLong >>

\* the text of input i becomes v
SetValue(i, v) ==
    /\ attrs[i] # [n \in {"value"} |-> v]
    /\ attrs' = [attrs EXCEPT ![i] = [n \in {"value"} |-> v]]
    /\ last' = Step("value", i)
    /\ UNCHANGED << document, innerHTML, divStyle, window, keydownListeners,
                    clickListeners, pending, errors, commentJs, toggleJs,
                    calls, sawLong >>

\* (variant: the handler also calls fade_out() on every checked keydown)
KeyDown_AlsoFades(i) ==
    /\ IF keydownListeners[i] = << >>
       THEN UNCHANGED << innerHTML, errors, sawLong, pending >>
       ELSE LET r == lengthCheck(i, innerHTML) IN
            /\ innerHTML' = r.innerHTML
            /\ errors' = IF r.threw = NoThrow THEN errors ELSE errors \cup {r.threw}
            /\ sawLong' = (sawLong \/ ("value" \in DOMAIN attrs[i]
                                        /\ Len(attrs[i]["value"]) > MaxCommentLength))
            /\ pending' = requestAnimationFrame(pending, "part_000:27")
    /\ last' = Step("keydown", i)
    /\ UNCHANGED << document, attrs, divStyle, window, keydownListeners,
                    clickListeners, commentJs, toggleJs, calls >>

\* a keydown event on input i
KeyDown(i) ==
    /\ IF keydownListeners[i] = << >>
       THEN UNCHANGED << innerHTML, errors, sawLong >>
       ELSE LET r == lengthCheck(i, innerHTML) IN
            /\ innerHTML' = r.innerHTML
            /\ errors' = IF r.threw = NoThrow THEN errors ELSE errors \cup {r.threw}
            /\ sawLong' = (sawLong \/ ("value" \in DOMAIN attrs[i]
                                        /\ Len(attrs[i]["value"]) > MaxCommentLength))
    /\ last' = Step("keydown", i)
    /\ UNCHANGED << document, attrs, divStyle, window, keydownListeners,
                    clickListeners, pending, commentJs, toggleJs, calls >>

\* a call of the global fade_in()
CallFadeIn ==
    /\ window.fade_in # Undefined
    /\ Len(pending) < MaxPending
    /\ LET r == Invoke(window.fade_in.name, [pending |-> pending, style |-> divStyle]) IN
       /\ pending' = r.pending
       /\ divStyle' = r.style
    /\ calls' = Append(calls, window.fade_in.name)
    /\ last' = Step("fade_in", 0)
    /\ UNCHANGED << document, attrs, innerHTML, window, keydownListeners,
                    clickListeners, errors, commentJs, toggleJs, sawLong >>

\* a call of the global fade_out()
CallFadeOut ==
    /\ window.fade_out # Undefined
    /\ Len(pending) < MaxPending
    /\ LET r == Invoke(window.fade_out.name, [pending |-> pending, style |-> divStyle]) IN
       /\ pending' = r.pending
       /\ divStyle' = r.style
    /\ calls' = Append(calls, window.fade_out.name)
    /\ last' = Step("fade_out", 0)
    /\ UNCHANGED << document, attrs, innerHTML, window, keydownListeners,
                    clickListeners, errors, commentJs, toggleJs, sawLong >>

\* a click event on the button of index b
Click(b) ==
    /\ b < document.buttons
    /\ Len(pending) + Len(clickListeners[b]) <= MaxPending
    /\ LET r == InvokeAll(clickListeners[b], [pending |-> pending, style |-> divStyle]) IN
       /\ pending' = r.pending
       /\ divStyle' = r.style
    /\ calls' = calls \o clickListeners[b]
    /\ last' = Step("click", b)
    /\ UNCHANGED << document, attrs, innerHTML, window, keydownListeners,
                    clickListeners, errors, commentJs, toggleJs, sawLong >>

\* one display refresh: the pending callbacks run
AnimationFrame ==
    /\ pending # << >>
    /\ LET r == RunFrame(pending, [style |-> divStyle, errors |-> errors]) IN
       /\ divStyle' = r.style
       /\ errors' = r.errors
    /\ pending' = << >>
    /\ calls' = << >>
    /\ last' = [op |-> "frame", target |-> 0, ran |-> calls]
    /\ UNCHANGED << document, attrs, innerHTML, window, keydownListeners,
                    clickListeners, commentJs, toggleJs, sawLong >>

Next ==
    \/ LoadComment
    \/ LoadToggle
    \/ \E i \in Inputs, v \in Values : SetValue(i, v)
    \/ \E i \in Inputs : KeyDown(i)
    \/ CallFadeIn
    \/ CallFadeOut
    \/ \E b \in Buttons : Click(b)
    \/ AnimationFrame

Spec == Init /\ [][Next]_vars
SpecAnyPage == InitAnyPage /\ [][Next]_vars

----------------------------------------------------------------------------
(* Properties *)

AfterKeydown(i) == last.op = "keydown" /\ last.target = i
Checked(i) == keydownListeners[i] # << >>
HasValue(i) == "value" \in DOMAIN attrs[i]
ValueLen(i) == Len(attrs[i]["value"])
IsFadeIn(fn) == fn \in {"fade_in", "window.fade_in"}
IsFadeOut(fn) == fn \in {"fade_out", "window.fade_out"}
IsPrefix(s, t) == Len(s) <= Len(t) /\ SubSeq(t, 1, Len(s)) = s

\* C1: after a keydown on a checked input whose value is longer than 10, the
\* <strong>'s content is exactly "Comment too long!", whatever it was before.
C1_LongValueWritesWarning ==
    \A i \in Inputs :
        (AfterKeydown(i) /\ Checked(i) /\ window.strong # Undefined
            /\ HasValue(i) /\ ValueLen(i) > MaxCommentLength)
        => innerHTML = Warning

C1_Witness ==
    \E i \in Inputs :
        /\ AfterKeydown(i) /\ Checked(i) /\ HasValue(i)
        /\ ValueLen(i) = MaxCommentLength + 1
        /\ innerHTML = Warning

\* C2: a keydown on an input whose value has length at most 10 (10 and the
\* empty string included) leaves the <strong>'s content as it was; a warning
\* written earlier stays.
C2_ShortValueWritesNothing ==
    [][ \A i \in Inputs :
          (last'.op = "keydown" /\ last'.target = i
              /\ HasValue(i) /\ ValueLen(i) <= MaxCommentLength)
          => innerHTML' = innerHTML ]_vars

C2_Witness ==
    \E i \in Inputs :
        /\ AfterKeydown(i) /\ Checked(i) /\ HasValue(i)
        /\ ValueLen(i) = MaxCommentLength
        /\ innerHTML = Warning

\* C3: a keydown on a checked input with no value attribute raises no error
\* (no exception is thrown at the read of value.length).
C3_AbsentValueRaisesNoError ==
    \A i \in Inputs :
        (AfterKeydown(i) /\ Checked(i) /\ ~HasValue(i))
        => "comment.js:5" \notin errors

\* C4: a frame that runs the callback of one fade_in call, nothing else being
\* pending, leaves the <div>'s opacity at 0.999.
C4_FadeInThenFrame ==
    (last.op = "frame" /\ Len(last.ran) = 1 /\ IsFadeIn(last.ran[1])
        /\ window.div # Undefined)
    => Opacity(divStyle) = 999

C4_Witness ==
    /\ last.op = "frame" /\ last.ran = << "window.fade_in" >>
    /\ Opacity(divStyle) = 999

\* C5: a frame that runs the callback of one fade_out call, nothing else
\* being pending, leaves the <div>'s opacity at 0.1.
C5_FadeOutThenFrame ==
    (last.op = "frame" /\ Len(last.ran) = 1 /\ IsFadeOut(last.ran[1])
        /\ window.div # Undefined)
    => Opacity(divStyle) = 100

C5_Witness ==
    /\ last.op = "frame" /\ last.ran = << "window.fade_out" >>
    /\ Opacity(divStyle) = 100

\* C6: a call of a fade function (directly or by a click) does not change the
\* <div>'s style, and no step changes it while a callback stays pending: the
\* style is as it was before the call until the frame runs.
C6_NoSynchronousMutation ==
    [][ (last'.op \in {"fade_in", "fade_out", "click"} \/ pending' # << >>)
        => divStyle' = divStyle ]_vars

C6_Witness ==
    /\ last.op = "fade_out" /\ pending # << >>
    /\ Opacity(divStyle) = 999

\* C7: every invocation of a fade function appends one callback and keeps
\* the callbacks already pending, in place: n invocations since the last
\* frame leave exactly n callbacks pending.
C7_OneCallbackPerInvocation ==
    [][ /\ Len(pending') = Len(calls')
        /\ (last'.op # "frame" => IsPrefix(pending, pending')) ]_vars

C7_Witness ==
    /\ last.op = "fade_in"
    /\ calls = << "window.fade_in", "window.fade_in", "window.fade_in" >>
    /\ Len(pending) = 3

\* C8: after a frame, the <div>'s opacity is the one of the fade function
\* invoked last before it: 0.999 for fade_in, 0.1 for fade_out.
C8_LastCallWins ==
    (last.op = "frame" /\ last.ran # << >> /\ window.div # Undefined)
    => Opacity(divStyle) =
           (IF IsFadeIn(last.ran[Len(last.ran)]) THEN 999 ELSE 100)

C8_Witness ==
    /\ last.op = "frame" /\ Len(last.ran) = 3
    /\ IsFadeOut(last.ran[1]) /\ IsFadeIn(last.ran[2]) /\ IsFadeOut(last.ran[3])
    /\ Opacity(divStyle) = 100

\* C9 (as stated): the <strong>'s content is decided by the latest keydown
\* alone: after a keydown that found a value of length at most 10 it is what
\* that keydown by itself leaves, the page's initial content.
C9_LatestKeydownAlone ==
    \A i \in Inputs :
        (AfterKeydown(i) /\ Checked(i) /\ HasValue(i)
            /\ ValueLen(i) <= MaxCommentLength)
        => innerHTML = InitialHTML

\* C9 (amended): the <strong>'s content is the last write: the warning if and
\* only if some checked keydown so far, on any input, found a value longer
\* than 10, and the initial content otherwise.
C9_LastWriteWins ==
    document.strong
    => innerHTML = (IF sawLong THEN Warning ELSE InitialHTML)

C9_Witness ==
    \E i, j \in Inputs :
        /\ i # j
        /\ AfterKeydown(i) /\ Checked(i) /\ HasValue(i)
        /\ ValueLen(i) <= MaxCommentLength
        /\ HasValue(j) /\ ValueLen(j) > MaxCommentLength
        /\ sawLong /\ innerHTML = Warning

\* C10: a script that ran to its end without an error found every node it
\* needs: comment.js the <strong>, part_000 the <div> and two buttons.
C10_MissingNodeFailsFast ==
    /\ commentJs = "done" => document.strong
    /\ toggleJs = "done" => (document.div /\ document.buttons >= 2)

\* C11: one click on a button invokes one fade handler and schedules one
\* callback: after a click, with nothing else invoked since the last frame,
\* exactly one callback is pending.
C11_OneClickOneCallback ==
    \A b \in Buttons :
        (last.op = "click" /\ last.target = b /\ toggleJs = "done"
            /\ calls = clickListeners[b])
        => Len(pending) = 1

\* C12: once comment.js has run every input holds the keydown check, and a
\* keydown on an input is decided by that input's own value: longer than 10
\* writes the warning, at most 10 writes nothing, whatever the other inputs
\* hold.
C12_CheckReadsFiringElement ==
    [][ /\ commentJs' = "done"
           => \A i \in Inputs : keydownListeners'[i] = << "lengthCheck" >>
        /\ \A i \in Inputs :
             (last'.op = "keydown" /\ last'.target = i
                 /\ commentJs = "done" /\ window.strong # Undefined
                 /\ HasValue(i))
             => innerHTML' = (IF ValueLen(i) > MaxCommentLength
                              THEN Warning ELSE innerHTML) ]_vars

C12_Witness ==
    \E i, j \in Inputs :
        /\ i # j
        /\ AfterKeydown(i) /\ Checked(i) /\ Checked(j)
        /\ HasValue(i) /\ ValueLen(i) <= MaxCommentLength
        /\ HasValue(j) /\ ValueLen(j) > MaxCommentLength
        /\ innerHTML = InitialHTML

\* C13: a frame that follows a click on button 0 leaves the <div>'s opacity
\* at 0.1, one that follows a click on button 1 leaves it at 0.999, and no
\* frame leaves any other opacity.
C13_ButtonMapping ==
    [][ (last'.op = "frame" /\ window.div # Undefined)
        => /\ Opacity(divStyle') \in {100, 999}
           /\ \A b \in Buttons :
                (last.op = "click" /\ last.target = b
                    /\ clickListeners[b] # << >>)
                => Opacity(divStyle') = (IF b = 0 THEN 100 ELSE 999) ]_vars

C13_Witness ==
    /\ last.op = "frame"
    /\ last.ran = << "window.fade_out", "fade_in", "window.fade_in" >>
    /\ Opacity(divStyle) = 999

\* C14: the warning is sticky: no step takes the <strong>'s content away
\* from "Comment too long!" once it is there, and after every step the
\* content is the warning exactly when some checked keydown has found a
\* value longer than 10.
C14_WarningIsSticky ==
    [][ document.strong
        => /\ innerHTML = Warning => innerHTML' = Warning
           /\ innerHTML' = Warning <=> sawLong' ]_vars

C14_Witness ==
    /\ \E i \in Inputs : AfterKeydown(i) /\ Checked(i)
    /\ \A i \in Inputs : HasValue(i) /\ ValueLen(i) <= MaxCommentLength
    /\ Opacity(divStyle) = 100
    /\ innerHTML = Warning

\* C15: the validator and the toggle do not interfere: a keydown changes
\* neither the <div>'s style nor the pending callbacks, and a fade call, a
\* click or a frame does not change the <strong>'s content.
C15_NoInterference ==
    [][ /\ last'.op = "keydown" => (divStyle' = divStyle /\ pending' = pending)
        /\ last'.op \in {"fade_in", "fade_out", "click", "frame"}
           => innerHTML' = innerHTML ]_vars

C15_Witness ==
    \E i \in Inputs :
        /\ AfterKeydown(i) /\ Checked(i)
        /\ HasValue(i) /\ ValueLen(i) > MaxCommentLength
        /\ innerHTML = Warning
        /\ Len(pending) = 2
        /\ Opacity(divStyle) = 999

=============================================================================
